---- MODULE Spec2Model ----
(***************************************************************************)
(* Job-application email triage: the thread ledger (ConversationManager),  *)
(* the poll loop (check_emails), and the per-message pipeline              *)
(* (process_email, process_job_application, generate_response).            *)
(*                                                                         *)
(* Python dicts are functions whose DOMAIN is the set of keys present.     *)
(* Field values are abstracted to the token that names their origin        *)
(* ("sender", "pattern", "oracle", ...); a turn keeps its role and the id  *)
(* of the message it came from (content and timestamp are not modelled).   *)
(***************************************************************************)
EXTENDS Integers, Sequences, FiniteSets, TLC

\* ------------------------------------------------------------------ bounds
MaxMsgs == 2
MaxFetches == 2
MaxCalls == 3
MaxFaults == 1

Msgs == 1..MaxMsgs
\* A mail thread is named by the id of its first message.
Threads == Msgs

\* ------------------------------------------------------------ field schema
FullName == "Full Name"
EmailAddress == "Email Address"
PhoneNumber == "Phone Number"
ResumeCV == "Resume/CV"
WorkExperience == "Work Experience"
Education == "Education"
Skills == "Skills"
Portfolio == "Portfolio"

required_information ==
    {FullName, EmailAddress, PhoneNumber, ResumeCV, WorkExperience, Education}

\* ------------------------------------------------------------ dict helpers
EmptyDict == [k \in {} |-> ""]

Put(d, k, v) == [x \in DOMAIN d \cup {k} |-> IF x = k THEN v ELSE d[x]]

Del(d, k) == [x \in DOMAIN d \ {k} |-> d[x]]

\* A merge that replaces the map by the new one.
DictReplace(d, e) == e

\* A merge that extends the value of a key both maps hold (as a list would be).
DictExtend(d, e) ==
    [x \in DOMAIN d \cup DOMAIN e |->
        IF x \in DOMAIN e
        THEN IF x \in DOMAIN d THEN d[x] \o "+" \o e[x] ELSE e[x]
        ELSE d[x]]

\* dict.update(e): every key of e is set to e's value, the others are kept
DictUpdate(d, e) ==
    [x \in DOMAIN d \cup DOMAIN e |-> IF x \in DOMAIN e THEN e[x] ELSE d[x]]

Get(d, k, default) == IF k \in DOMAIN d THEN d[k] ELSE default

VARIABLES
    active_threads,        \* ConversationManager.active_threads: thread -> turns
    provided_information,  \* ConversationManager.provided_information: thread -> map
    cache,                 \* conversation_cache/<thread>.json files
    processed_emails,      \* in-memory set of processed message ids
    processed_file,        \* processed_emails.json
    inbox,                 \* mailbox: message id -> [thread, hr, unread]
    details,               \* mailbox: what messages().get yields for the unread
                           \* messages fetched so far (a read one is not fetched again)
    sent,                  \* replies delivered to applicants, in order
    background_checks,     \* thread ids handed to perform_background_check, in order
    images,                \* message ids with an attachment_images/<id> folder
    running,               \* the poll process is alive
    pc,                    \* position of the poll process
    queue,                 \* messages of the current cycle not yet handled
    cur,                   \* the in-flight message (email_data and locals)
    fetched,               \* number of messages taken up for processing so far
    faults,                \* number of failed calls and process stops so far
    calls,                 \* number of direct ledger calls made (SpecLedger)
    completed,             \* history: threads complete_conversation has retired
    evaluated,             \* history: thread -> the map on which generate_response
                           \* last took the thread's application for complete
    last                   \* history: the latest ledger call and its argument

vars == <<active_threads, provided_information, cache, processed_emails,
          processed_file, inbox, details, sent, background_checks, images,
          running, pc, queue, cur, fetched, faults, calls, completed,
          evaluated, last>>

ledger == <<active_threads, provided_information, cache>>
pipeline == <<processed_emails, processed_file, inbox, details, sent,
              background_checks, images, running, pc, queue, cur, fetched, faults,
             evaluated>>

\* ------------------------------------------------------ ConversationManager
Turn(role, mid) == [role |-> role, mid |-> mid]

\* Outcome of one write of a file: written, not written (open failed), or
\* truncated by open(..., 'w') and then not completed.
WriteOutcomes == {"ok", "fail", "torn"}

File(messages, provided) ==
    [messages |-> messages, provided |-> provided, readable |-> TRUE]

TornFile == [messages |-> << >>, provided |-> EmptyDict, readable |-> FALSE]

\* The ledger as a value, so that the methods compose.
Ledger(a, p, c) == [active |-> a, provided |-> p, cache |-> c]

save_conversation(L, t, w) ==
    IF t \in DOMAIN L.active
    THEN CASE w = "ok" ->
                [L EXCEPT !.cache =
                    Put(L.cache, t, File(L.active[t], Get(L.provided, t, EmptyDict)))]
           [] w = "torn" -> [L EXCEPT !.cache = Put(L.cache, t, TornFile)]
           [] OTHER -> L
    ELSE L

\* add_message without the role test: the fields are merged whoever speaks.
add_message_any_role(L, t, role, mid, provided_info, w) ==
    LET a1 == IF t \in DOMAIN L.active THEN L.active ELSE Put(L.active, t, << >>)
        p1 == IF t \in DOMAIN L.provided THEN L.provided
              ELSE Put(L.provided, t, EmptyDict)
        p2 == [p1 EXCEPT ![t] = DictUpdate(p1[t], provided_info)]
        a2 == [a1 EXCEPT ![t] = Append(a1[t], Turn(role, mid))]
    IN  save_conversation(Ledger(a2, p2, L.cache), t, w)

add_message(L, t, role, mid, provided_info, w) ==
    LET a1 == IF t \in DOMAIN L.active THEN L.active ELSE Put(L.active, t, << >>)
        p1 == IF t \in DOMAIN L.provided THEN L.provided
              ELSE Put(L.provided, t, EmptyDict)
        p2 == IF DOMAIN provided_info # {} /\ role = "applicant"
              THEN [p1 EXCEPT ![t] = DictUpdate(p1[t], provided_info)]
              ELSE p1
        a2 == [a1 EXCEPT ![t] = Append(a1[t], Turn(role, mid))]
    IN  save_conversation(Ledger(a2, p2, L.cache), t, w)

update_provided_information(L, t, provided_info, w) ==
    LET p1 == IF t \in DOMAIN L.provided THEN L.provided
              ELSE Put(L.provided, t, EmptyDict)
        p2 == [p1 EXCEPT ![t] = DictUpdate(p1[t], provided_info)]
    IN  save_conversation(Ledger(L.active, p2, L.cache), t, w)

complete_conversation(L, t, w) ==
    IF t \in DOMAIN L.active
    THEN LET S == save_conversation(L, t, w)
         IN  [S EXCEPT !.active = Del(S.active, t)]
    ELSE L

get_conversation_history(L, t) == Get(L.active, t, << >>)

get_provided_information(L, t) == Get(L.provided, t, EmptyDict)

get_active_thread_count(L) == Cardinality(DOMAIN L.active)

\* load_all_conversations reads the files in directory order and stops at the
\* first one json.load cannot read: `loaded` is the set read before that.
LoadableSets(c) ==
    LET good == {t \in DOMAIN c : c[t].readable}
    IN  IF good = DOMAIN c THEN {good} ELSE SUBSET good

load_all_conversations(c, loaded) ==
    Ledger([t \in loaded |-> c[t].messages], [t \in loaded |-> c[t].provided], c)

\* ------------------------------------------------------------ inbound emails
\* What extract_email_data yields for a message, reduced to the features the
\* pipeline branches on:
\*   parse    extract_email_data returned the data (not {})
\*   bg       the subject contains "Background Check Results:"
\*   named    the From header carries a display name (sender_name is non-empty)
\*   phone    the contact-keyword phone pattern matches the body
\*   edu      "regex": the education pattern matches the body; "keyword": the
\*            body only names a degree or institution; "none": neither
\*   signoff  a sign-off pattern ("regards, <name>") yields a name
\*   attach   "none" | "pdf" | "doc" (a word document, unrelated file name) |
\*            "other" (not a document, unrelated file name)
\*   subj     "none" | "weak" | "strong": subject keywords of classify_email
\*   bodyKw   the body contains one of classify_email's body keywords
Email(named, phone, edu, signoff, attach, subj, bodyKw) ==
    [parse |-> TRUE, bg |-> FALSE, named |-> named, phone |-> phone, edu |-> edu,
     signoff |-> signoff, attach |-> attach, subj |-> subj, bodyKw |-> bodyKw]

BareApplication == Email(TRUE, FALSE, "none", FALSE, "none", "strong", FALSE)
UnnamedApplication == Email(FALSE, FALSE, "none", FALSE, "none", "strong", TRUE)
DetailsInBody == Email(TRUE, TRUE, "regex", TRUE, "none", "strong", TRUE)
PdfResume == Email(TRUE, FALSE, "none", FALSE, "pdf", "strong", TRUE)
FullApplication == Email(TRUE, TRUE, "regex", TRUE, "pdf", "strong", TRUE)
PhotoAttached == Email(TRUE, FALSE, "none", FALSE, "other", "strong", FALSE)
WordResume == Email(TRUE, TRUE, "none", FALSE, "doc", "weak", FALSE)
Newsletter == Email(TRUE, FALSE, "none", FALSE, "none", "none", FALSE)
Malformed == [BareApplication EXCEPT !.parse = FALSE]
BackgroundCheckNotice == [Newsletter EXCEPT !.bg = TRUE]

ApplicantEmails ==
    {BareApplication, UnnamedApplication, DetailsInBody, PdfResume,
     FullApplication, PhotoAttached, WordResume, Newsletter, Malformed}

HREmails == {BackgroundCheckNotice, BareApplication}

EmailsFrom(hr) == IF hr THEN HREmails ELSE ApplicantEmails

\* classify_email without its test of the sender: the keywords alone decide.
classify_email_by_content(hr, e) ==
    LET subject_matches == e.subj \in {"weak", "strong"}
        body_matches == e.bodyKw
        has_resume == e.attach \in {"pdf", "doc"}
    IN  \/ subject_matches /\ (body_matches \/ has_resume)
        \/ body_matches /\ has_resume
        \/ subject_matches /\ e.subj = "strong"

\* classify_email, on the features of the email
classify_email(hr, e) ==
    LET subject_matches == e.subj \in {"weak", "strong"}
        body_matches == e.bodyKw
        has_resume == e.attach \in {"pdf", "doc"}
    IN  IF hr THEN FALSE
        ELSE \/ subject_matches /\ (body_matches \/ has_resume)
             \/ body_matches /\ has_resume
             \/ subject_matches /\ e.subj = "strong"

\* basic_info of process_email
BasicInfo(e) ==
    LET b1 == IF e.named THEN Put(EmptyDict, FullName, "sender") ELSE EmptyDict
        b2 == Put(b1, EmailAddress, "sender")
        b3 == IF e.phone THEN Put(b2, PhoneNumber, "pattern") ELSE b2
        b4 == IF e.attach = "pdf" THEN Put(b3, ResumeCV, "true") ELSE b3
    IN  IF e.edu = "regex" THEN Put(b4, Education, "pattern") ELSE b4

\* ------------------------------------------------------- the oracle's answers
\* What analyze_resume returns:
\*   kind       "ok"; "empty": {} (a call inside analyze_resume raised);
\*              "garbled": extracted_information came back as text
\*   extracted  the keys of extracted_information that carry a value
\*   eduNeg     the education entry is a negative assertion ("not specified ...")
\*   text       response_text: "absent" | "work" (it mentions work experience) |
\*              "degree" (it names a degree)
\*   missing    the names in missing_information
\*   complete   application_complete
Analysis(kind, extracted, eduNeg, text, missing, complete) ==
    [kind |-> kind, extracted |-> extracted, eduNeg |-> eduNeg, text |-> text,
     missing |-> missing, complete |-> complete]

EmptyAnalysis == Analysis("empty", {}, FALSE, "absent", {}, FALSE)
GarbledAnalysis == Analysis("garbled", {}, FALSE, "absent", {}, FALSE)

AllExtracted == {"name", "email", "phone", "education", "work_experience", "skills"}

NoneExtracted == [keys |-> {}, eduNeg |-> FALSE]
PhoneExtracted == [keys |-> {"phone"}, eduNeg |-> FALSE]
NoEducationExtracted == [keys |-> {"education"}, eduNeg |-> TRUE]
EverythingExtracted == [keys |-> AllExtracted, eduNeg |-> FALSE]

Extractions ==
    {NoneExtracted, PhoneExtracted, NoEducationExtracted, EverythingExtracted}

MissingAnswers ==
    {{PhoneNumber}, {Education}, {WorkExperience}, {Portfolio}}

Answer(x, txt, m, c) == Analysis("ok", x.keys, x.eduNeg, txt, m, c)

\* application_complete is set from the list when the answer parses as JSON
\* (complete iff the list is empty), and from the wording of the answer when it
\* does not parse and no required name was recognised in it.
Analyses ==
    {Answer(x, "absent", {}, c) : x \in Extractions, c \in BOOLEAN}
    \cup {Answer(x, "absent", m, FALSE) :
            x \in {NoneExtracted, EverythingExtracted}, m \in MissingAnswers}
    \cup {Answer(NoneExtracted, txt, {}, FALSE) : txt \in {"work", "degree"}}
    \cup {EmptyAnalysis, GarbledAnalysis}

\* extracted_information of extract_text_from_image: the fields the vision model
\* reads off the rendered pages; only a PDF attachment is rendered.
ImageExtractions == {{}, {"phone", "education"}}

extract_text_from_image(e) == IF e.attach = "pdf" THEN ImageExtractions ELSE {{}}

\* provided_info of process_job_application
ProvidedInfo(e, a, thread, imgs) ==
    LET has(k) == a.kind = "ok" /\ k \in a.extracted
        p1 == IF has("name") THEN Put(EmptyDict, FullName, "oracle") ELSE EmptyDict
        p2 == IF has("email") THEN Put(p1, EmailAddress, "oracle") ELSE p1
        p3 == IF has("phone") THEN Put(p2, PhoneNumber, "oracle") ELSE p2
        p4 == IF has("education")
              THEN Put(p3, Education, IF a.eduNeg THEN "negative" ELSE "oracle")
              ELSE p3
        p5 == IF has("work_experience") THEN Put(p4, WorkExperience, "oracle") ELSE p4
        p6 == IF has("skills") THEN Put(p5, Skills, "oracle") ELSE p5
        p7 == IF e.attach # "none" \/ thread \in imgs
              THEN Put(p6, ResumeCV, "true") ELSE p6
        p8 == IF e.phone THEN Put(p7, PhoneNumber, "pattern") ELSE p7
    IN  IF e.edu = "regex"
        THEN IF Education \in DOMAIN p8
             THEN Put(p8, Education,
                      IF p8[Education] = "negative" THEN "negative+pattern"
                      ELSE "oracle+pattern")
             ELSE Put(p8, Education, "pattern")
        ELSE p8

\* The verdict of generate_response: the list it asks for, whether it takes the
\* application for complete, and the thread's map as the function leaves it
\* (`provided` is the ledger's own dict, so setting Full Name writes through).
\* `raised` is the failure of sender_name.split()[0] on an empty display name.
generate_response(e, a, provided) ==
    LET ok == a.kind = "ok"
        missing0 == IF ok THEN a.missing ELSE {}
        complete0 == ok /\ a.complete
        missing1 == IF missing0 = {} THEN required_information \ DOMAIN provided
                    ELSE missing0
        missing2 == missing1 \ {EmailAddress}
        missing3 == IF ResumeCV \in DOMAIN provided \/ e.attach # "none"
                    THEN missing2 \ {ResumeCV} ELSE missing2
        work_experience_provided ==
            ok /\ ("work_experience" \in a.extracted \/ a.text = "work")
        missing4 == IF work_experience_provided THEN missing3 \ {WorkExperience}
                    ELSE missing3
        body_name == e.signoff
        missing5 == IF body_name THEN missing4 \ {FullName} ELSE missing4
        provided1 == IF body_name THEN Put(provided, FullName, "body") ELSE provided
        from_extracted == IF ok /\ "education" \in a.extracted THEN a.eduNeg ELSE TRUE
        from_text == IF ok /\ a.text = "degree" THEN FALSE ELSE from_extracted
        from_body == IF e.edu \in {"keyword", "regex"} THEN FALSE ELSE from_text
        education_missing ==
            IF Education \in DOMAIN provided1 THEN FALSE ELSE from_body
        missing6 == IF education_missing THEN missing5 \cup {Education} ELSE missing5
    IN  IF ~e.named
        THEN [raised |-> TRUE, complete |-> FALSE, missing |-> {},
              provided |-> provided]
        ELSE IF complete0
        THEN [raised |-> FALSE, complete |-> TRUE, missing |-> {},
              provided |-> provided]
        ELSE [raised |-> FALSE, complete |-> missing6 = {}, missing |-> missing6,
              provided |-> provided1]

\* -------------------------------------------------------------- initial state
\* email_data and the locals of the message being processed; `had` is history:
\* the fields the thread's map held when the message was taken up; `vision` is
\* what extract_text_from_image returned for the pages of the attachment
InFlight(m, t, hr, e, had) ==
    [mid |-> m, thread |-> t, hr |-> hr, e |-> e, a |-> EmptyAnalysis,
     vision |-> {}, text |-> FALSE, complete |-> FALSE, had |-> had]

NoMessage == InFlight(0, 0, FALSE, Newsletter, {})

NoCall ==
    [op |-> "none", thread |-> 0, role |-> "", info |-> EmptyDict,
     before |-> EmptyDict]

Init ==
    /\ active_threads = EmptyDict
    /\ provided_information = EmptyDict
    /\ cache = EmptyDict
    /\ processed_emails = {}
    /\ processed_file = [ids |-> {}, readable |-> TRUE]
    /\ inbox = EmptyDict
    /\ details = EmptyDict
    /\ sent = << >>
    /\ background_checks = << >>
    /\ images = {}
    /\ running = TRUE
    /\ pc = "idle"
    /\ queue = << >>
    /\ cur = NoMessage
    /\ fetched = 0
    /\ faults = 0
    /\ calls = 0
    /\ completed = {}
    /\ evaluated = EmptyDict
    /\ last = NoCall

TheLedger == Ledger(active_threads, provided_information, cache)

SetLedger(L) ==
    /\ active_threads' = L.active
    /\ provided_information' = L.provided
    /\ cache' = L.cache

\* ------------------------------------------- the ledger driven by direct calls
\* Arguments of the direct calls: two threads, and maps over two of the fields
\* (none, one or both, with two values for one of them).
CallThreads == {1, 2}
CallKeys == {PhoneNumber, Education}
CallInfos ==
    {EmptyDict,
     Put(EmptyDict, PhoneNumber, "pattern"),
     Put(EmptyDict, Education, "oracle"),
     Put(Put(EmptyDict, PhoneNumber, "oracle"), Education, "oracle")}
Roles == {"applicant", "system"}

Called(op, t, role, info) ==
    /\ calls < MaxCalls
    /\ calls' = calls + 1
    /\ last' = [op |-> op, thread |-> t, role |-> role, info |-> info,
                before |-> Get(provided_information, t, EmptyDict)]
    /\ UNCHANGED pipeline

CallAddMessage ==
    \E t \in CallThreads, role \in Roles, info \in CallInfos, w \in WriteOutcomes :
        /\ SetLedger(add_message(TheLedger, t, role, 0, info, w))
        /\ Called("add_message", t, role, info)
        /\ UNCHANGED completed

CallUpdateProvidedInformation ==
    \E t \in CallThreads, info \in CallInfos, w \in WriteOutcomes :
        /\ SetLedger(update_provided_information(TheLedger, t, info, w))
        /\ Called("update_provided_information", t, "", info)
        /\ UNCHANGED completed

CallCompleteConversation ==
    \E t \in CallThreads, w \in WriteOutcomes :
        /\ SetLedger(complete_conversation(TheLedger, t, w))
        /\ completed' = IF t \in DOMAIN active_threads THEN completed \cup {t}
                        ELSE completed
        /\ Called("complete_conversation", t, "", EmptyDict)

\* A new ConversationManager over the same cache directory.
CallReload ==
    \E loaded \in LoadableSets(cache) :
        /\ SetLedger(load_all_conversations(cache, loaded))
        /\ Called("load_all_conversations", 0, "", EmptyDict)
        /\ UNCHANGED completed

NextLedger ==
    \/ CallAddMessage
    \/ CallUpdateProvidedInformation
    \/ CallCompleteConversation
    \/ CallReload

SpecLedger == Init /\ [][NextLedger]_vars

\* ------------------------------------------------------------------ the inbox
\* A new message arrives, on a new thread or on a thread of the mailbox, from
\* an applicant or from the HR address. Arrivals are taken between poll cycles.
Deliver ==
    /\ pc = "idle"
    /\ LET m == Cardinality(DOMAIN inbox) + 1
       IN  /\ m <= MaxMsgs
           /\ \E t \in {m} \cup {inbox[x].thread : x \in DOMAIN inbox},
                 hr \in BOOLEAN :
                 inbox' = Put(inbox, m, [thread |-> t, hr |-> hr, unread |-> TRUE])
    /\ UNCHANGED <<ledger, processed_emails, processed_file, details, sent,
                   background_checks, images, running, pc, queue, cur, fetched,
                   faults, calls, completed, last,
                   evaluated>>

Ascending(S) ==
    CHOOSE q \in [1..Cardinality(S) -> S] :
        \A i, j \in 1..Cardinality(S) : i < j => q[i] < q[j]

\* get_unread_emails: the unread messages from HR when there are any, else all
\* unread messages; [] when a call of the mail service fails.
get_unread_emails(box, ok) ==
    LET unread == {m \in DOMAIN box : box[m].unread}
        hr_messages == {m \in unread : box[m].hr}
    IN  IF ~ok THEN << >>
        ELSE IF hr_messages # {} THEN Ascending(hr_messages)
        ELSE Ascending(unread)

mark_as_read(box, m, ok) == IF ok THEN [box EXCEPT ![m].unread = FALSE] ELSE box

\* mark_as_read on the mailbox
MarkAsRead(m, ok) ==
    /\ inbox' = mark_as_read(inbox, m, ok)
    /\ details' = IF ok THEN Del(details, m) ELSE details

\* Failed file writes, failed service calls and stops of the process are counted;
\* MaxFaults bounds them.
Failed(w) == IF w = "ok" THEN 0 ELSE 1

Down(ok) == IF ok THEN 0 ELSE 1

Spend(n) == faults + n <= MaxFaults /\ faults' = faults + n

\* ----------------------------------------------------------------- check_emails
Poll ==
    /\ running /\ pc = "idle"
    /\ \E ok \in BOOLEAN :
         /\ Spend(Down(ok))
         /\ LET messages == get_unread_emails(inbox, ok)
            IN  IF messages = << >>
                THEN UNCHANGED <<pc, queue>>
                ELSE pc' = "loop" /\ queue' = messages
    /\ UNCHANGED <<ledger, processed_emails, processed_file, inbox, details,
                   sent, background_checks, images, running, cur, fetched, calls,
                   completed, last,
                   evaluated>>

\* the for loop goes to its next message, or check_emails returns
NextMessage(q) ==
    /\ queue' = q
    /\ pc' = IF q = << >> THEN "idle" ELSE "loop"

\* an exception reaches the except clause of check_emails
AbortCycle ==
    /\ queue' = << >>
    /\ pc' = "idle"

\* the payload of message m: as fetched before, or as the mailbox yields it now
Payloads(m) ==
    IF m \in DOMAIN details THEN {details[m]} ELSE EmailsFrom(inbox[m].hr)

Fetch ==
    /\ running /\ pc = "loop"
    /\ LET m == Head(queue)
       IN  IF m \in processed_emails
           THEN /\ NextMessage(Tail(queue))
                /\ UNCHANGED <<cur, faults, fetched, details>>
           ELSE /\ fetched < MaxFetches
                /\ fetched' = fetched + 1
                /\ \E got \in BOOLEAN :
                     /\ Spend(Down(got))
                     /\ IF ~got THEN AbortCycle /\ UNCHANGED <<cur, details>>
                        ELSE \E e \in Payloads(m) :
                               /\ details' = Put(details, m, e)
                               /\ cur' = InFlight(m, inbox[m].thread,
                                      inbox[m].hr, e,
                                      DOMAIN get_provided_information(
                                                 TheLedger, inbox[m].thread))
                               /\ pc' = "process_email"
                               /\ UNCHANGED queue
    /\ UNCHANGED <<ledger, processed_emails, processed_file, inbox, sent,
                   background_checks, images, running, calls, completed, last,
                   evaluated>>

\* ---------------------------------------------------------------- process_email
ProcessEmail ==
    /\ running /\ pc = "process_email"
    /\ IF ~cur.e.parse
       THEN pc' = "record" /\ UNCHANGED <<ledger, inbox, details, faults>>
       ELSE IF cur.hr /\ cur.e.bg
       THEN /\ \E ok \in BOOLEAN :
                 /\ Spend(Down(ok))
                 /\ MarkAsRead(cur.mid, ok)
            /\ pc' = "record"
            /\ UNCHANGED ledger
       ELSE \E w \in WriteOutcomes :
              /\ SetLedger(add_message(TheLedger, cur.thread, "applicant",
                                       cur.mid, BasicInfo(cur.e), w))
              /\ IF classify_email(cur.hr, cur.e)
                 THEN /\ pc' = "analyze"
                      /\ UNCHANGED <<inbox, details>>
                      /\ Spend(Failed(w))
                 ELSE \E ok \in BOOLEAN :
                        /\ Spend(Failed(w) + Down(ok))
                        /\ MarkAsRead(cur.mid, ok)
                        /\ pc' = "record"
    /\ UNCHANGED <<processed_emails, processed_file, sent, background_checks,
                   images, running, queue, cur, fetched, calls, completed, last,
                   evaluated>>

\* ------------------------------------------------------ process_job_application
\* the attachments, analyze_resume and update_provided_information
AnalyzeResume ==
    /\ running /\ pc = "analyze"
    /\ images' = IF cur.e.attach = "pdf" THEN images \cup {cur.mid} ELSE images
    /\ \E a \in Analyses :
         IF a.kind = "garbled"
         THEN pc' = "record" /\ UNCHANGED <<ledger, cur, faults>>
         ELSE \E w \in WriteOutcomes :
                /\ Spend(Failed(w))
                /\ SetLedger(update_provided_information(
                       TheLedger, cur.thread,
                       ProvidedInfo(cur.e, a, cur.thread, images'), w))
                /\ \E v \in extract_text_from_image(cur.e) :
                       cur' = [cur EXCEPT !.a = a, !.vision = v]
                /\ pc' = "respond"
    /\ UNCHANGED <<processed_emails, processed_file, inbox, details, sent,
                   background_checks, running, queue, fetched, calls, completed,
                   last,
                   evaluated>>

Reply(t, m, kind, missing) ==
    [thread |-> t, mid |-> m, kind |-> kind, missing |-> missing]

\* The locals of the message that are read after generate_response.
Responded(c, text, complete) ==
    [c EXCEPT !.e = Newsletter, !.a = EmptyAnalysis, !.vision = {},
              !.text = text, !.complete = complete, !.had = {}]

\* generate_response: the verdict, the reply text from the model, the send
GenerateResponse ==
    /\ running /\ pc = "respond"
    /\ LET t == cur.thread
           r == generate_response(cur.e, cur.a,
                                  get_provided_information(TheLedger, t))
       IN  /\ provided_information' =
                 IF t \in DOMAIN provided_information
                 THEN [provided_information EXCEPT ![t] = r.provided]
                 ELSE provided_information
           /\ IF r.raised
              THEN /\ pc' = "mark_read"
                   /\ cur' = Responded(cur, FALSE, FALSE)
                   /\ UNCHANGED <<sent, faults, evaluated>>
              ELSE \E written \in BOOLEAN, sentOk \in BOOLEAN :
                     IF ~written
                     THEN /\ sentOk
                          /\ Spend(1)
                          /\ pc' = "mark_read"
                          /\ cur' = Responded(cur, FALSE, FALSE)
                          /\ UNCHANGED <<sent, evaluated>>
                     ELSE /\ Spend(Down(sentOk))
                          /\ sent' = IF sentOk
                                     THEN Append(sent, Reply(t, cur.mid,
                                            IF r.complete THEN "confirm"
                                            ELSE "request", r.missing))
                                     ELSE sent
                          /\ cur' = Responded(cur, TRUE, r.complete)
                          /\ evaluated' =
                                IF r.complete
                                THEN Put(evaluated, t,
                                         get_provided_information(TheLedger, t))
                                ELSE evaluated
                          /\ pc' = "system_turn"
    /\ UNCHANGED <<active_threads, cache, processed_emails, processed_file, inbox,
                   details, background_checks, images, running, queue, fetched,
                   calls, completed, last>>

SystemTurn ==
    /\ running /\ pc = "system_turn"
    /\ \E w \in WriteOutcomes :
         /\ Spend(Failed(w))
         /\ SetLedger(add_message(TheLedger, cur.thread, "system", cur.mid,
                                  EmptyDict, w))
    /\ pc' = "mark_read"
    /\ UNCHANGED <<processed_emails, processed_file, inbox, details, sent,
                   background_checks, images, running, queue, cur, fetched,
                   calls, completed, last,
                   evaluated>>

MarkRead ==
    /\ running /\ pc = "mark_read"
    /\ \E ok \in BOOLEAN :
         /\ Spend(Down(ok))
         /\ MarkAsRead(cur.mid, ok)
    /\ pc' = IF cur.complete THEN "complete" ELSE "record"
    /\ UNCHANGED <<ledger, processed_emails, processed_file, sent,
                   background_checks, images, running, queue, cur, fetched,
                   calls, completed, last,
                   evaluated>>

\* complete_conversation, the background check, clean_temp_files
CompleteApplication ==
    /\ running /\ pc = "complete"
    /\ \E w \in WriteOutcomes :
         /\ Spend(Failed(w))
         /\ SetLedger(complete_conversation(TheLedger, cur.thread, w))
    /\ completed' = completed \cup {cur.thread}
    /\ background_checks' = Append(background_checks, cur.thread)
    /\ images' = images \ {cur.mid}
    /\ pc' = "record"
    /\ UNCHANGED <<processed_emails, processed_file, inbox, details, sent,
                   running, queue, cur, fetched, calls, last,
                   evaluated>>

\* back in check_emails: the id joins processed_emails and the file is rewritten
Record ==
    /\ running /\ pc = "record"
    /\ processed_emails' = processed_emails \cup {cur.mid}
    /\ cur' = NoMessage
    /\ \E w \in WriteOutcomes :
         /\ Spend(Failed(w))
         /\ CASE w = "ok" ->
                   /\ processed_file' =
                        [ids |-> processed_emails', readable |-> TRUE]
                   /\ NextMessage(Tail(queue))
              [] w = "torn" ->
                   /\ processed_file' = [ids |-> {}, readable |-> FALSE]
                   /\ AbortCycle
              [] OTHER -> UNCHANGED processed_file /\ AbortCycle
    /\ UNCHANGED <<ledger, inbox, details, sent, background_checks, images,
                   running, fetched, calls, completed, last,
                   evaluated>>

\* ------------------------------------------------------------- stop and start
\* KeyboardInterrupt is no Exception: it passes every handler of the pipeline
\* and ends main wherever the process is.
Interrupt ==
    /\ running
    /\ Spend(1)
    /\ running' = FALSE
    /\ UNCHANGED <<ledger, processed_emails, processed_file, inbox, details,
                   sent, background_checks, images, pc, queue, cur, fetched, calls,
                   completed, last,
                   evaluated>>

\* The module is loaded again: a new ConversationManager, processed_emails read
\* from its file (the load is not guarded: an unreadable file ends the start).
Restart ==
    /\ ~running /\ processed_file.readable
    /\ \E loaded \in LoadableSets(cache) :
         SetLedger(load_all_conversations(cache, loaded))
    /\ processed_emails' = processed_file.ids
    /\ running' = TRUE
    /\ pc' = "idle"
    /\ queue' = << >>
    /\ cur' = NoMessage
    /\ UNCHANGED <<processed_file, inbox, details, sent, background_checks,
                   images, fetched, faults, calls, completed, last,
                   evaluated>>

Next ==
    \/ Deliver
    \/ Poll
    \/ Fetch
    \/ ProcessEmail
    \/ AnalyzeResume
    \/ GenerateResponse
    \/ SystemTurn
    \/ MarkRead
    \/ CompleteApplication
    \/ Record
    \/ Interrupt
    \/ Restart

Spec == Init /\ [][Next]_vars

\* ================================================================ properties
ProvidedFields(t) == DOMAIN Get(provided_information, t, EmptyDict)

\* the thread's file holds what the manager holds in memory for it
Persisted(t) ==
    /\ t \in DOMAIN active_threads
    /\ t \in DOMAIN cache
    /\ cache[t] = File(active_threads[t], Get(provided_information, t, EmptyDict))

Merges == {"add_message", "update_provided_information"}

\* the latest direct call merged last.info into the map of last.thread
LastMerged ==
    /\ last.op \in Merges
    /\ last.op = "add_message" => last.role = "applicant"

\* C1: whenever a turn ends with the verdict complete (the confirmation is
\* written and the thread goes on to complete_conversation and the background
\* check), the thread's map holds all six required fields.
C1_CompleteHasAllRequired ==
    (pc \in {"system_turn", "mark_read", "complete"} /\ cur.complete)
        => required_information \subseteq ProvidedFields(cur.thread)

\* C2: whenever the thread's map holds all six required fields after the turn's
\* merge, none of them a negative assertion, the verdict of the turn is complete
\* (the reply is the confirmation, not a request).
C2_AllRequiredIsComplete ==
    (/\ pc = "system_turn"
     /\ required_information \subseteq ProvidedFields(cur.thread)
     /\ provided_information[cur.thread][Education]
            \notin {"negative", "negative+pattern"})
        => cur.complete

\* C3: under add_message, update_provided_information and complete_conversation
\* every thread keeps its map and every map keeps its keys.
C3_KeysStayPresent ==
    [][last'.op \in Merges \cup {"complete_conversation"} =>
          \A t \in DOMAIN provided_information :
              /\ t \in DOMAIN provided_information'
              /\ DOMAIN provided_information[t]
                    \subseteq DOMAIN provided_information'[t]]_vars

\* a merge that did not carry Phone Number has run on a thread whose map holds it
C3_Witness ==
    /\ LastMerged
    /\ PhoneNumber \in DOMAIN last.before
    /\ PhoneNumber \notin DOMAIN last.info
    /\ PhoneNumber \in ProvidedFields(last.thread)

\* C4: a request for missing information never lists a required field that the
\* thread's map already held when the message was taken up.
C4_NoPresentFieldRequested ==
    [][(pc = "respond" /\ Len(sent') > Len(sent)
          /\ sent'[Len(sent')].kind = "request")
        => sent'[Len(sent')].missing \cap cur.had \cap required_information = {}]_vars

\* C5: no thread holds two applicant turns that came from the same message id.
C5_OneTurnPerMessage ==
    \A t \in DOMAIN active_threads :
        \A i, j \in DOMAIN active_threads[t] :
            (/\ i < j
             /\ active_threads[t][i].role = "applicant"
             /\ active_threads[t][j].role = "applicant")
                => active_threads[t][i].mid # active_threads[t][j].mid

\* C6: while the process runs, handling a message of a thread that
\* complete_conversation has retired appends no turn, changes no map and sends
\* no reply.
C6_CompletionIsTerminal ==
    [][(running /\ running' /\ cur.thread \in completed)
        => /\ active_threads' = active_threads
           /\ provided_information' = provided_information
           /\ sent' = sent]_vars

\* C7: a merge of M into a thread whose map equals M leaves the map equal to M.
C7_MergeIdempotent ==
    (LastMerged /\ last.before = last.info)
        => Get(provided_information, last.thread, EmptyDict) = last.info

\* a map over both fields has been merged into a thread whose map equalled it
C7_Witness ==
    /\ LastMerged
    /\ last.before = last.info
    /\ DOMAIN last.info = CallKeys

\* C8: when analyze_resume failed (it returned {}), the turn sends no reply and
\* does not take the application for complete.
C8_NoReplyOnFailedAnalysis ==
    [][(pc = "respond" /\ cur.a.kind = "empty")
        => (sent' = sent /\ ~cur'.complete)]_vars

\* C9: a reply is sent only for a turn whose state is on disk as it is in memory.
C9_NoReplyOnUnsavedTurn ==
    [][(pc = "respond" /\ Len(sent') > Len(sent)) => Persisted(cur.thread)]_vars

\* C10: a message for which a reply was written is marked read only if a reply
\* for it was delivered.
C10_ReadOnlyAfterSend ==
    (pc \in {"complete", "record"} /\ cur.text /\ ~inbox[cur.mid].unread)
        => \E i \in DOMAIN sent : sent[i].mid = cur.mid

\* C11: add_message leaves the thread's file either as it was before the call or
\* holding the state after it (turn appended, fields merged): never a partial or
\* unreadable record.
C11_AppendIsAtomicOnDisk ==
    [][last'.op = "add_message" =>
          LET t == last'.thread
          IN  \/ cache' = cache
              \/ /\ t \in DOMAIN cache'
                 /\ cache'[t] = File(active_threads'[t], provided_information'[t])]_vars

\* C12: a restart between two poll cycles gives every thread back as it was: the
\* same turns, the same map, and active or not as before.
C12_RestartKeepsLedger ==
    [][(~running /\ running' /\ pc = "idle")
        => /\ active_threads' = active_threads
           /\ provided_information' = provided_information]_vars

\* C13: complete_conversation on an active thread takes it out of the active set
\* (the active count drops by one), and the getters still return the turns and
\* the map the thread had at completion.
C13_CompletedIsArchived ==
    [][(last'.op = "complete_conversation" /\ last'.thread \in DOMAIN active_threads)
        => LET t == last'.thread
               after == Ledger(active_threads', provided_information', cache')
           IN  /\ t \notin DOMAIN active_threads'
               /\ get_active_thread_count(after)
                    = get_active_thread_count(TheLedger) - 1
               /\ get_conversation_history(after, t) = active_threads[t]
               /\ get_provided_information(after, t)
                    = get_provided_information(TheLedger, t)]_vars

IsPrefix(s, t) == Len(s) <= Len(t) /\ SubSeq(t, 1, Len(s)) = s

\* C14: outside a reload, a thread's turn sequence only grows at the end, in
\* memory while the thread is held there and in its file: the turns already
\* written stay a prefix of what the file holds afterwards.
C14_TurnsAppendOnly ==
    [][last'.op # "load_all_conversations"
        => /\ \A t \in DOMAIN active_threads \cap DOMAIN active_threads' :
                 IsPrefix(active_threads[t], active_threads'[t])
           /\ \A t \in DOMAIN cache :
                 /\ t \in DOMAIN cache'
                 /\ IsPrefix(cache[t].messages, cache'[t].messages)]_vars

\* C15: when the oracle's education entry is a negative assertion ("not specified
\* in resume"), the thread's map had no Education before the message and the body
\* names no education, the reply sent for that turn is a request that lists
\* Education as missing.
C15_NegativeEducationIsMissing ==
    [][(/\ pc = "respond"
        /\ cur.a.kind = "ok"
        /\ "education" \in cur.a.extracted
        /\ cur.a.eduNeg
        /\ Education \notin cur.had
        /\ cur.e.edu = "none"
        /\ Len(sent') > Len(sent))
        => /\ sent'[Len(sent')].kind = "request"
           /\ Education \in sent'[Len(sent')].missing]_vars

\* C16: every reply lists only required fields as missing: an optional field the
\* oracle names is never asked for and never keeps an application incomplete.
C16_OnlyRequiredFieldsRequested ==
    \A i \in DOMAIN sent : sent[i].missing \subseteq required_information

\* The thread's map as process_job_application leaves it for the message in
\* hand when analyze_resume answers a, and the verdict generate_response then
\* reaches on it.
MapAfter(a) ==
    LET imgs == IF cur.e.attach = "pdf" THEN images \cup {cur.mid} ELSE images
        L == update_provided_information(
                 TheLedger, cur.thread,
                 ProvidedInfo(cur.e, a, cur.thread, imgs), "ok")
    IN  get_provided_information(L, cur.thread)

VerdictAfter(a) ==
    LET r == generate_response(cur.e, a, MapAfter(a))
    IN  [complete |-> r.complete, missing |-> r.missing]

\* C17: for a message about to be analysed, any two answers of the oracle that
\* leave the thread with the same cumulative map lead to the same verdict: the
\* same complete flag and the same missing list.
C17_VerdictDependsOnMapOnly ==
    (pc = "analyze" /\ cur.e.named)
        => \A a1, a2 \in Analyses \ {GarbledAnalysis} :
              MapAfter(a1) = MapAfter(a2) => VerdictAfter(a1) = VerdictAfter(a2)

\* d holds every entry of e: the same keys with the same values, and possibly more.
Extends(d, e) == \A k \in DOMAIN e : k \in DOMAIN d /\ d[k] = e[k]

\* C18: once generate_response has taken a thread's application for complete, an
\* evaluation of the thread on a map holding every entry of the earlier one takes
\* it for complete again.
C18_NoRegression ==
    [][(/\ running /\ pc = "respond" /\ pc' = "system_turn"
        /\ cur.thread \in DOMAIN evaluated
        /\ Extends(get_provided_information(TheLedger, cur.thread),
                   evaluated[cur.thread]))
        => cur'.complete]_vars

\* C19: when the phone pattern matches the body of a message and the oracle
\* extracts a phone number from it too, the thread's map holds the oracle's
\* value once the turn's fields are merged.
C19_OracleValueWins ==
    (/\ pc = "respond"
     /\ cur.e.phone
     /\ cur.a.kind = "ok"
     /\ "phone" \in cur.a.extracted)
        => /\ cur.thread \in DOMAIN provided_information
           /\ PhoneNumber \in DOMAIN provided_information[cur.thread]
           /\ provided_information[cur.thread][PhoneNumber] = "oracle"

\* C20: a message whose processing failed on extraction (its data could not be
\* read, or the analysis of the application raised) and that is still unread when
\* the cycle records it is not entered in the processed-message set, so a later
\* poll cycle takes it up again.
C20_FailedMessageIsRetried ==
    [][(/\ running /\ pc = "record"
        /\ cur.mid \in DOMAIN inbox
        /\ inbox[cur.mid].unread
        /\ \/ ~cur.e.parse
           \/ /\ ~(cur.hr /\ cur.e.bg)
              /\ classify_email(cur.hr, cur.e))
        => cur.mid \notin processed_emails']_vars

\* C21: the poll process stops on an interrupt only between messages: never while
\* a message is in flight (taken up and not yet recorded as processed).
C21_InterruptFinishesMessage ==
    [][(running /\ ~running') => pc \in {"idle", "loop"}]_vars

C23_OnlyApplicationsTouchLedger ==
    [][(/\ running /\ pc = "process_email"
        /\ cur.e.parse
        /\ ~classify_email(cur.hr, cur.e))
        => UNCHANGED ledger]_vars

\* C24: an application whose only attachment is no document and has an unrelated
\* file name, on a thread with no Resume/CV so far and no rendered images, does
\* not get Resume/CV recorded in the thread's map.
C24_ResumeNeedsDocument ==
    (/\ pc = "respond"
     /\ cur.e.attach = "other"
     /\ ResumeCV \notin cur.had
     /\ cur.thread \notin images
     /\ cur.mid \notin images)
        => ResumeCV \notin DOMAIN get_provided_information(TheLedger, cur.thread)

\* C25: while the poll process runs, the messages of the current cycle are taken
\* one by one: a step leaves the cycle's list as it is or drops its first
\* message, so a failure on one message never discards the ones after it.
C25_FailureKeepsCycle ==
    [][(running /\ running' /\ queue # << >>)
        => queue' \in {queue, Tail(queue)}]_vars

\* C26: when the vision model reads a phone number off the rendered pages of a
\* PDF attachment, the thread's map holds Phone Number once the turn's fields are
\* merged.
C26_ImageFieldsMerged ==
    (pc = "respond" /\ "phone" \in cur.vision)
        => PhoneNumber \in DOMAIN get_provided_information(TheLedger, cur.thread)

Unread(m) == m \in DOMAIN inbox /\ inbox[m].unread

\* the id is in processed_emails and a restart would load it again
Recorded(m) ==
    /\ m \in processed_emails
    /\ processed_file.readable => m \in processed_file.ids

\* applicant message m waits behind HR message h: m is unread, not taken up and
\* not processed; h is unread as well, and recorded as processed
Starved(m, h) ==
    /\ Unread(m) /\ ~inbox[m].hr
    /\ m \notin processed_emails
    /\ cur.mid # m
    /\ \A i \in DOMAIN queue : queue[i] # m
    /\ Unread(h) /\ inbox[h].hr
    /\ Recorded(h)

\* Once an applicant message waits behind such an HR message it does so for ever:
\* every cycle lists the HR message alone and skips it, so nothing marks it read.
StarvedIsStable ==
    [][\A m, h \in Msgs : Starved(m, h) => Starved(m, h)']_vars

\* C27: no unread applicant message is kept from being fetched in every later
\* cycle: it never waits behind an unread HR message that is already recorded as
\* processed (and so is listed alone and skipped by every cycle from then on).
C27_NoApplicantStarves ==
    \A m, h \in Msgs : ~Starved(m, h)

\* C28: perform_background_check is called at most once for a thread.
C28_OneBackgroundCheckPerThread ==
    \A i, j \in DOMAIN background_checks :
        background_checks[i] = background_checks[j] => i = j

\* C29: every system turn held for a thread stands for a reply that was delivered
\* on that thread for the same inbound message.
C29_SystemTurnMeansDelivered ==
    \A t \in DOMAIN active_threads :
        \A i \in DOMAIN active_threads[t] :
            active_threads[t][i].role = "system"
                => \E k \in DOMAIN sent :
                      /\ sent[k].thread = t
                      /\ sent[k].mid = active_threads[t][i].mid

\* C30: while a message from the HR address is in flight, no reply is sent, no
\* thread is completed, no background check is run and the message never enters
\* process_job_application; and no reply ever sent answers a message from HR.
C30_HRMailIsNeverAnswered ==
    [][/\ (running /\ cur.mid # 0 /\ cur.hr)
            => /\ sent' = sent
               /\ background_checks' = background_checks
               /\ completed' = completed
               /\ pc' \notin {"analyze", "respond", "system_turn", "complete"}
       /\ \A k \in DOMAIN sent' : ~inbox'[sent'[k].mid].hr]_vars

\* a message from HR that reads like an application has been handled on a thread
\* that already held an applicant's fields, and is marked read
C30_Witness ==
    /\ pc = "record"
    /\ cur.hr
    /\ cur.e = BareApplication
    /\ cur.had # {}
    /\ ~inbox[cur.mid].unread
    /\ sent # << >>

====
